---- MODULE Spec2Model ----
(***************************************************************************)
(* Model of the streaming session client of the end-to-end harness         *)
(* (tests/e2e/utils/websocket_client.py, class WebSocketClient).           *)
(*                                                                         *)
(* One WebSocketClient object is driven by one caller thread; every        *)
(* connect() creates a transport (websocket.WebSocketApp) and a background *)
(* thread running its run_forever(), which invokes the callbacks on_open,  *)
(* on_message, on_error and on_close that connect() defines.  The caller's *)
(* blocking operations are split at the points where the receive thread    *)
(* can interleave.  pc = "returned" is the instant at which a call ends:   *)
(* ret, call and outputs then describe the finished call, and the caller's *)
(* next step (Resume) forgets them before anything else happens.           *)
(*                                                                         *)
(* Further specifications share the module.  SpecRuns runs                 *)
(* execute_command_and_wait twice on the same scripted frames, each run    *)
(* with its own interleaving.  SpecApi models the polling loop of          *)
(* APIClient.wait_for_container_ready (tests/e2e/utils/api_client.py).     *)
(* SpecControl models the request primitives of APIClient and the calls    *)
(* the port-conflict tests make (tests/e2e/test_port_conflict.py), and     *)
(* SpecFanOut the threads of test_concurrent_port_conflict_detection.      *)
(* SpecRetry models the retry loop around stop_course                      *)
(* (tests/e2e/test_api_integration.py), SpecProbe the services_running     *)
(* fixture (tests/e2e/conftest.py), and SpecConsumers two threads that     *)
(* read the queue of one WebSocketClient.                                  *)
(* Each specification leaves the variables of the others at rest.          *)
(***************************************************************************)
EXTENDS Integers, Sequences, FiniteSets, TLC

\* ------------------------------------------------------------------ bounds
MaxConn    == 2      \* connect() calls (transports created) per object
MaxFrames  == 3      \* inbound frames delivered over the object's lifetime

\* ------------------------------------------------- constants of the program
PollTimeout == 1     \* self.get_output(timeout=1) in the wait loops
MaxScript  == 2      \* frames of a script fed to execute_command_and_wait
MaxWait    == 3      \* largest timeout given to wait_for_container_ready
SleepInterval == 1   \* time.sleep(1) between two polls

\* -------------------------------------------------------------- input sets
Transports == 1..MaxConn
Timeouts   == {1, 2}     \* timeout arguments the caller passes, in seconds
Commands   == {"echo"}

MaxElapsed == 2      \* seconds a measured request is followed for
FailedSample == 0 - 1    \* return -1.0 of measure_api_response_time

\* Payload text is a sequence of characters so that Python's substring test
\* `expected in str(data)` is computed rather than assumed.
NoText == << >>

\* Frames the remote end can put on the stream: JSON objects with a type and
\* a data field, and text that is not JSON (json.loads raises
\* JSONDecodeError).
Frames ==
    { [json |-> TRUE,  fault |-> FALSE, type |-> "connected", data |-> NoText],
      [json |-> TRUE,  fault |-> FALSE, type |-> "output",
       data |-> <<"b", "a">>],
      [json |-> FALSE, fault |-> FALSE, type |-> "", data |-> <<"b">>] }

\* A frame on which json.loads raises an exception that is not a
\* JSONDecodeError: a binary frame that is not valid UTF-8 raises
\* UnicodeDecodeError, text nested too deeply raises RecursionError.
FaultFrame == [json |-> FALSE, fault |-> TRUE, type |-> "", data |-> NoText]

\* Spec draws the inbound frames from Frames; SpecInbound, which follows
\* the inbound path alone, draws them from AllFrames.
AllFrames == Frames \cup { FaultFrame }

\* expected_output arguments; NoText stands for None and for "" (both falsy).
Expecteds == { NoText, <<"a">> }

VARIABLES
    ws,         \* self.ws: 0 for None, else the transport created last
    ws_thread,  \* self.ws_thread: 0 for None, else the thread started last
    nconn,      \* number of transports created so far
    loop,       \* per transport: state of the thread running run_forever
    acked,      \* a "connected" frame arrived on self.ws before connect() gave up
    failed,     \* the connect() that opened transport self.ws timed out
    messages,   \* self.messages (queue.Queue), head is the oldest
    connected,  \* self.connected (threading.Event) flag
    error,      \* self.error: "none" for None
    nframes,    \* frames enqueued so far; gives each message its arrival index
    delivered,  \* arrival indices in the order queue.get handed them out
    pc,         \* position of the caller thread
    call,       \* arguments and bookkeeping of the call in progress
    elapsed,    \* whole seconds since the running timed wait started
    readStart,  \* value of elapsed when the pending queue read started
    notified,   \* the waiter blocked in Event.wait has been notified by set()
    outputs,    \* local list `outputs` of execute_command_and_wait
    nsent,      \* writes to the transport made by the call in progress
    ret,        \* how the last finished call ended
    \* two runs of execute_command_and_wait on one script (SpecRuns)
    script,     \* the scripted frames, the expected text and the timeout
    run,        \* per run: position of the caller, queue, collected list, ...
    \* APIClient.wait_for_container_ready (SpecApi)
    apc,        \* position of the caller inside wait_for_container_ready
    wtimeout,   \* its timeout argument, in seconds
    wel,        \* whole seconds since its start_time
    polls,      \* the get_container_status polls made: when, and the answer
    wret,       \* how the call ended
    \* APIClient primitives and the port-conflict tests (SpecControl)
    srv,        \* the server: courses that have a running container
    ctl,        \* the call the test thread is making, and how it ended
    \* the concurrent checks (SpecFanOut)
    fan,        \* the launching thread, its worker threads, the results
    \* the retry loop around stop_course (SpecRetry)
    retry,      \* its position, the attempt it is in, what happened so far
    \* the services_running fixture (SpecProbe)
    probe,      \* its position, the URL it is at, the probes made so far
    \* several threads calling one WebSocketClient (SpecConsumers)
    thr         \* per calling thread: the call it is in and its locals

runVars   == << script, run >>
apiVars   == << apc, wtimeout, wel, polls, wret >>
ctlVars   == << srv, ctl, fan >>
harnessVars == << retry, probe, thr >>
otherVars == << runVars, apiVars, ctlVars, harnessVars >>

vars == << ws, ws_thread, nconn, loop, acked, failed, messages, connected,
           error, nframes, delivered, pc, call, elapsed, readStart, notified,
           outputs, nsent, ret, runVars, apiVars, ctlVars, harnessVars >>

transportVars == << ws, ws_thread, nconn, loop, acked, failed >>
queueVars     == << messages, nframes, delivered >>
flagVars      == << connected, error >>
sessionVars   == << transportVars, queueVars, flagVars >>
localVars     == << call, elapsed, readStart, notified, outputs, nsent >>

\* ----------------------------------------------------------- pure helpers

\* Python `needle in hay` on strings.
Contains(needle, hay) ==
    \E i \in 0..(Len(hay) - Len(needle)) :
        \A j \in 1..Len(needle) : hay[i + j] = needle[j]

\* on_message's decoding: json.loads(message), or the raw wrapper of the
\* except branch.
Decode(f) ==
    IF f.json THEN [type |-> f.type, data |-> f.data]
              ELSE [type |-> "raw",  data |-> f.data]

\* A queued message: the decoded frame tagged with its arrival order index.
Enqueued(f, n) ==
    [type |-> Decode(f).type, data |-> Decode(f).data, idx |-> n]

\* A queue that puts new elements at the head (LIFO).
QueuePut_AtHead(q, m) == << m >> \o q

\* queue.Queue.put: append at the tail.
QueuePut(q, m) == Append(q, m)

\* A get that hands out the head and leaves it in the queue.
QueueRest_Keeps(q) == q

\* queue.Queue.get: the element handed out is the head.
QueueFront(q) == Head(q)
QueueRest(q)  == Tail(q)

\* The socket of transport t accepts a write.
CanWrite(t) == loop[t] = "open"

\* The thread of transport t is alive (Thread.is_alive).
IsAlive(t) == loop[t] \in {"open", "closing", "errored"}

\* Arrival indices of the messages in queue q.
QueuedIdx(q) == { q[i].idx : i \in 1..Len(q) }

\* call.stale: arrival indices of the messages queued when the call started.
NoCall == [op |-> "none", cmd |-> "", expected |-> NoText, timeout |-> 0,
           stale |-> {}]
NoRet  == [op |-> "none", kind |-> "none", val |-> FALSE]

Returned(op, v) == [op |-> op, kind |-> "return", val |-> v]
Raised(op)      == [op |-> op, kind |-> "raise",  val |-> FALSE]

\* ------------------------------------------------------------------- Init
\* WebSocketClient.__init__
SessionInit ==
    /\ ws = 0
    /\ ws_thread = 0
    /\ nconn = 0
    /\ loop = [t \in Transports |-> "none"]
    /\ acked = FALSE
    /\ failed = FALSE
    /\ messages = << >>
    /\ connected = FALSE
    /\ error = "none"
    /\ nframes = 0
    /\ delivered = << >>
    /\ pc = "idle"
    /\ call = NoCall
    /\ elapsed = 0
    /\ readStart = 0
    /\ notified = FALSE
    /\ outputs = << >>
    /\ nsent = 0
    /\ ret = NoRet

\* No scripted runs are under way.
RunsAtRest ==
    /\ script = [frames |-> << >>, expected |-> NoText, timeout |-> 0]
    /\ run = << >>

\* No wait_for_container_ready call is under way.
ApiAtRest ==
    /\ apc = "idle"
    /\ wtimeout = 0
    /\ wel = 0
    /\ polls = << >>
    /\ wret = NoRet

\* The value of a variable whose part of the program does not run in the
\* specification at hand.
Absent == << >>

\* No control call is under way, no container runs, no thread was started.
NoCtl == [pc |-> "idle", op |-> "none", course |-> "", port |-> << >>,
          nreq |-> 0, status |-> 0, kind |-> "none", code |-> 0,
          val |-> 0, body |-> "none"]
NoFan == [pc |-> "idle", started |-> 0, joined |-> 0, worker |-> << >>,
          results |-> << >>, merged |-> << >>]

CtlAtRest ==
    /\ srv = {}
    /\ ctl = Absent
    /\ fan = Absent

\* The retry loop and the fixture have not begun; no thread is in a call.
NoRetry == [pc |-> "idle", course |-> "", attempt |-> 0, log |-> << >>,
            kind |-> "none"]
NoProbe == [pc |-> "idle", url |-> 0, n |-> 0, made |-> << 0, 0 >>,
            failed |-> << 0, 0 >>, slept |-> << 0, 0 >>,
            ans |-> << 0, 0 >>]
NoThread == [op |-> "none", pc |-> "idle", expected |-> NoText,
             timeout |-> 0, el |-> 0, rs |-> 0, empties |-> 0,
             got |-> << >>, kind |-> "none"]

HarnessAtRest ==
    /\ retry = Absent
    /\ probe = Absent
    /\ thr = Absent

Init ==
    SessionInit /\ RunsAtRest /\ ApiAtRest /\ CtlAtRest /\ HarnessAtRest

\* A fresh WebSocketClient, no container, and one further part of the
\* program about to run: the test thread's control calls (c), the
\* concurrent checks (f), the retry loop (r), the fixture (p).
InitPart(c, f, r, p) ==
    /\ SessionInit
    /\ RunsAtRest
    /\ ApiAtRest
    /\ srv = {}
    /\ ctl = c
    /\ fan = f
    /\ retry = r
    /\ probe = p
    /\ thr = Absent

InitControl == InitPart(NoCtl, Absent, Absent, Absent)
InitFanOut == InitPart(Absent, NoFan, Absent, Absent)
InitRetry == InitPart(Absent, Absent, NoRetry, Absent)
InitProbe == InitPart(Absent, Absent, Absent, NoProbe)

\* The session is usable for commands: the handshake acknowledgement arrived
\* on the current transport, which is still open, and the flag is set.
Connected ==
    /\ ws /= 0
    /\ loop[ws] = "open"
    /\ acked
    /\ connected

\* A call ends: its outcome becomes visible.
Finish(r) ==
    /\ pc' = "returned"
    /\ ret' = r

\* ------------------------------------------------- receive loop (callbacks)
\* One thread per transport runs WebSocketApp.run_forever.  loop[t] is
\*   "none"     no such transport yet
\*   "open"     the thread is running and the socket carries frames and writes
\*   "closing"  WebSocketApp.close() was called: no read or write succeeds
\*              any more, the teardown (on_close) is still to come
\*   "errored"  on_error has run, the teardown (on_close) is still to come
\*   "done"     on_close has run and the thread has ended
\* on_open only prints and is not an action of its own.

\* threading.Event.set wakes a caller that is blocked in Event.wait.
EventSet == pc = "connect_blocked"

\* The flag after on_message handled frame f (lines 29-30).
FlagAfterMessage(f, flag) ==
    IF f.json /\ f.type = "connected" THEN TRUE ELSE flag

\* The except clause of on_message (line 31) catches the exception that
\* json.loads raised on frame f.
Caught(f) == ~f.fault

\* on_message(ws, message).  An exception the except clause does not catch
\* leaves the callback at line 26, before the put of line 27.
on_message(t, f) ==
    /\ loop[t] = "open"
    /\ nframes < MaxFrames
    /\ nframes' = nframes + 1
    /\ IF f.json \/ Caught(f)
          THEN /\ messages' = QueuePut(messages, Enqueued(f, nframes + 1))
               /\ connected' = FlagAfterMessage(f, connected)
               /\ notified' = (notified \/ (connected' /\ f.type = "connected"
                                               /\ EventSet))
               /\ acked' = (acked \/ (t = ws /\ ~failed /\ f.json
                                       /\ f.type = "connected"))
          ELSE UNCHANGED << messages, connected, notified, acked >>
    /\ UNCHANGED << ws, ws_thread, nconn, loop, failed, error, delivered >>

\* on_error(ws, error): the transport failed (refused, reset, ...);
\* run_forever then goes on to its teardown.
on_error(t) ==
    /\ loop[t] = "open"
    /\ error' = "err"
    /\ loop' = [loop EXCEPT ![t] = "errored"]
    /\ UNCHANGED << ws, ws_thread, nconn, acked, failed, queueVars,
                    connected, notified >>

\* The flag after on_close (line 42).
FlagAfterClose(flag) == FALSE

\* on_close(ws, code, msg): teardown of run_forever, after a failure, a
\* close by the remote end or a local close(); the thread then ends.
on_close(t) ==
    /\ loop[t] \in {"open", "closing", "errored"}
    /\ connected' = FlagAfterClose(connected)
    /\ loop' = [loop EXCEPT ![t] = "done"]
    /\ UNCHANGED << ws, ws_thread, nconn, acked, failed, queueVars, error,
                    notified >>

\* One callback of some transport's thread, the frames drawn from F.
RunForever(F) ==
    /\ pc /= "returned"
    /\ \E t \in Transports :
          \/ \E f \in F : on_message(t, f)
          \/ on_error(t)
          \/ on_close(t)
    /\ UNCHANGED << pc, call, elapsed, readStart, outputs, nsent, ret >>
    /\ UNCHANGED otherVars

ReceiveLoop == RunForever(Frames)

\* The receive loop fed every kind of frame.
ReceiveAny == RunForever(AllFrames)

\* ---------------------------------------------------------- caller: calls
\* The caller forgets the finished call and is free to make the next one.
Resume ==
    /\ pc = "returned"
    /\ pc' = "idle"
    /\ call' = NoCall
    /\ ret' = NoRet
    /\ outputs' = << >>
    /\ elapsed' = 0
    /\ readStart' = 0
    /\ notified' = FALSE
    /\ nsent' = 0
    /\ UNCHANGED sessionVars
    /\ UNCHANGED otherVars

\* ------------------------------------------------------------- connect()
\* Lines 49-60: build the WebSocketApp, start the daemon thread.
ConnectStart ==
    /\ pc = "idle"
    /\ nconn < MaxConn
    /\ nconn' = nconn + 1
    /\ ws' = nconn + 1
    /\ ws_thread' = nconn + 1
    /\ loop' = [loop EXCEPT ![nconn + 1] = "open"]
    /\ acked' = FALSE
    /\ failed' = FALSE
    /\ call' = [NoCall EXCEPT !.op = "connect"]
    /\ pc' = "connect_enter"
    /\ UNCHANGED << queueVars, flagVars, elapsed, readStart, notified,
                    outputs, nsent, ret >>
    /\ UNCHANGED otherVars

\* Line 63, entry of Event.wait: a flag that is already set returns at once.
ConnectEnter ==
    /\ pc = "connect_enter"
    /\ IF connected
          THEN Finish(Returned("connect", TRUE))
          ELSE /\ pc' = "connect_blocked"
               /\ UNCHANGED ret
    /\ UNCHANGED << sessionVars, localVars >>
    /\ UNCHANGED otherVars

\* Line 63-64: the blocked waiter was notified by set(); wait returns True.
ConnectNotified ==
    /\ pc = "connect_blocked"
    /\ notified
    /\ Finish(Returned("connect", TRUE))
    /\ UNCHANGED << sessionVars, localVars >>
    /\ UNCHANGED otherVars

\* Line 63-66: the 10 s pass without a notification; connect raises.
ConnectTimedOut ==
    /\ pc = "connect_blocked"
    /\ ~notified
    /\ Finish(Raised("connect"))
    /\ failed' = TRUE
    /\ acked' = FALSE
    /\ UNCHANGED << ws, ws_thread, nconn, loop, queueVars, flagVars,
                    localVars >>
    /\ UNCHANGED otherVars

Connect == ConnectStart \/ ConnectEnter \/ ConnectNotified \/ ConnectTimedOut

\* -------------------------------------------------------- send_command()
\* The outcome of send_command(command) on the current state: it raises when
\* self.ws is None, returns True when ws.send went through and False when
\* ws.send raised (socket not open).
SendOutcome ==
    IF ws = 0 THEN "raise"
    ELSE IF CanWrite(ws) THEN "true"
    ELSE "false"

SendCommand ==
    /\ pc = "idle"
    /\ \E c \in Commands :
          call' = [NoCall EXCEPT !.op = "send_command", !.cmd = c]
    /\ nsent' = IF SendOutcome = "true" THEN 1 ELSE 0
    /\ Finish(IF SendOutcome = "raise" THEN Raised("send_command")
              ELSE Returned("send_command", SendOutcome = "true"))
    /\ UNCHANGED << sessionVars, elapsed, readStart, notified, outputs >>
    /\ UNCHANGED otherVars

\* ---------------------------------------------------------- get_output()
\* Lines 85-90 called directly: block on the queue for up to `timeout`.
GetOutputStart ==
    /\ pc = "idle"
    /\ \E T \in Timeouts :
          call' = [NoCall EXCEPT !.op = "get_output", !.timeout = T]
    /\ pc' = "get_wait"
    /\ UNCHANGED << sessionVars, elapsed, readStart, notified, outputs,
                    nsent, ret >>
    /\ UNCHANGED otherVars

\* messages.get returns the head of the queue.
GetOutputTake ==
    /\ pc = "get_wait"
    /\ messages /= << >>
    /\ delivered' = Append(delivered, QueueFront(messages).idx)
    /\ messages' = QueueRest(messages)
    /\ outputs' = << QueueFront(messages) >>
    /\ Finish(Returned("get_output", TRUE))
    /\ UNCHANGED << transportVars, nframes, flagVars, call, elapsed,
                    readStart, notified, nsent >>
    /\ UNCHANGED otherVars

\* queue.Empty after `timeout` seconds: get_output returns None.
GetOutputEmpty ==
    /\ pc = "get_wait"
    /\ messages = << >>
    /\ elapsed >= call.timeout
    /\ Finish(Returned("get_output", FALSE))
    /\ UNCHANGED << sessionVars, localVars >>
    /\ UNCHANGED otherVars

GetOutput == GetOutputStart \/ GetOutputTake \/ GetOutputEmpty

\* -------------------------------------------- execute_command_and_wait()
\* Entry of the call; the drain loop is next.
ExecStart ==
    /\ pc = "idle"
    /\ \E c \in Commands, e \in Expecteds, T \in Timeouts :
          call' = [NoCall EXCEPT !.op = "execute", !.cmd = c,
                                 !.expected = e, !.timeout = T,
                                 !.stale = QueuedIdx(messages)]
    /\ pc' = "exec_drain"
    /\ UNCHANGED << sessionVars, elapsed, readStart, notified, outputs,
                    nsent, ret >>
    /\ UNCHANGED otherVars

\* Lines 104-108, the drain loop: what one round leaves in the queue, and
\* whether another round follows.
DrainStep(q) == QueueRest(q)

\* A drain loop that never runs.
DrainAgain_Never(q) == FALSE

DrainAgain(q) == q /= << >>

ExecDrain ==
    /\ pc = "exec_drain"
    /\ IF DrainAgain(messages)
          THEN /\ delivered' = Append(delivered, QueueFront(messages).idx)
               /\ messages' = DrainStep(messages)
               /\ pc' = "exec_drain"
          ELSE /\ pc' = "exec_send"
               /\ UNCHANGED << messages, delivered >>
    /\ UNCHANGED << transportVars, nframes, flagVars, localVars, ret >>
    /\ UNCHANGED otherVars

\* A call that goes on to its wait loop whatever send_command returned.
ExecSend_IgnoresFailure ==
    /\ pc = "exec_send"
    /\ nsent' = IF SendOutcome = "true" THEN nsent + 1 ELSE nsent
    /\ pc' = "exec_loop"
    /\ UNCHANGED ret
    /\ UNCHANGED << sessionVars, call, elapsed, readStart, notified,
                    outputs >>
    /\ UNCHANGED otherVars

\* Lines 111-116: send the command; a False result is turned into a raise,
\* a raise of send_command propagates; then start_time and outputs are set.
ExecSend ==
    /\ pc = "exec_send"
    /\ IF SendOutcome = "true"
          THEN /\ nsent' = nsent + 1
               /\ pc' = "exec_loop"
               /\ UNCHANGED ret
          ELSE /\ Finish(Raised("execute"))
               /\ UNCHANGED nsent
    /\ UNCHANGED << sessionVars, call, elapsed, readStart, notified,
                    outputs >>
    /\ UNCHANGED otherVars

\* The value of result["success"] (line 128).
ExecSuccess(outs) == Len(outs) > 0

\* A wait loop that gives the session up when its time has run out.
ExecLoopTest_ClosesOnTimeout ==
    /\ pc = "exec_loop"
    /\ IF elapsed < call.timeout
          THEN /\ pc' = "exec_read"
               /\ readStart' = elapsed
               /\ UNCHANGED << ret, connected >>
          ELSE /\ Finish(Returned("execute", ExecSuccess(outputs)))
               /\ connected' = FALSE
               /\ UNCHANGED readStart
    /\ UNCHANGED << transportVars, queueVars, error, call, elapsed, notified,
                    outputs, nsent >>
    /\ UNCHANGED otherVars

\* Line 118, the loop condition; when it fails the call returns (125-129).
ExecLoopTest ==
    /\ pc = "exec_loop"
    /\ IF elapsed < call.timeout
          THEN /\ pc' = "exec_read"
               /\ readStart' = elapsed
               /\ UNCHANGED ret
          ELSE /\ Finish(Returned("execute", ExecSuccess(outputs)))
               /\ UNCHANGED readStart
    /\ UNCHANGED << sessionVars, call, elapsed, notified, outputs, nsent >>
    /\ UNCHANGED otherVars

\* A loop that ends on whatever message comes first once a text is expected.
ExecBreak_OnAny(expected, m) == expected /= NoText

\* Line 122: the break condition for a message that was just collected.
ExecBreak(expected, m) == expected /= NoText /\ Contains(expected, m.data)

\* Lines 119-123 with a message: collect it, break on a match.
ExecReadMessage ==
    /\ pc = "exec_read"
    /\ messages /= << >>
    /\ delivered' = Append(delivered, QueueFront(messages).idx)
    /\ messages' = QueueRest(messages)
    /\ outputs' = Append(outputs, QueueFront(messages))
    /\ IF ExecBreak(call.expected, QueueFront(messages))
          THEN Finish(Returned("execute", ExecSuccess(outputs')))
          ELSE /\ pc' = "exec_loop"
               /\ UNCHANGED ret
    /\ readStart' = 0
    /\ UNCHANGED << transportVars, nframes, flagVars, call, elapsed,
                    notified, nsent >>
    /\ UNCHANGED otherVars

\* Lines 119-120 without one: get_output gave None after PollTimeout.
ExecReadNone ==
    /\ pc = "exec_read"
    /\ messages = << >>
    /\ elapsed - readStart >= PollTimeout
    /\ pc' = "exec_loop"
    /\ readStart' = 0
    /\ UNCHANGED << sessionVars, call, elapsed, notified, outputs, nsent,
                    ret >>
    /\ UNCHANGED otherVars

ExecuteCommandAndWait ==
    ExecStart \/ ExecDrain \/ ExecSend \/ ExecLoopTest \/ ExecReadMessage
        \/ ExecReadNone

\* ---------------------------------------------------------------- close()
\* WebSocketApp.close(): an open socket is shut; the thread's teardown
\* follows on its own.
TransportClose(l, t) ==
    IF t /= 0 /\ l[t] = "open" THEN [l EXCEPT ![t] = "closing"] ELSE l

\* Lines 133-136: ws.close() when there is a transport, then join the
\* thread when it is alive.
CloseStart ==
    /\ pc = "idle"
    /\ call' = [NoCall EXCEPT !.op = "close"]
    /\ loop' = TransportClose(loop, ws)
    /\ IF ws_thread /= 0 /\ IsAlive(ws_thread)
          THEN /\ pc' = "close_join"
               /\ UNCHANGED ret
          ELSE Finish(Returned("close", TRUE))
    /\ UNCHANGED << ws, ws_thread, nconn, acked, failed, queueVars, flagVars,
                    elapsed, readStart, notified, outputs, nsent >>
    /\ UNCHANGED otherVars

\* A join without a timeout: it returns only when the thread has ended.
CloseJoin_Unbounded ==
    /\ pc = "close_join"
    /\ ~IsAlive(ws_thread)
    /\ Finish(Returned("close", TRUE))
    /\ UNCHANGED << sessionVars, localVars >>
    /\ UNCHANGED otherVars

\* join(timeout=5) returns: the thread has ended, or the 5 s have passed.
CloseJoin ==
    /\ pc = "close_join"
    /\ Finish(Returned("close", ~IsAlive(ws_thread)))
    /\ UNCHANGED << sessionVars, localVars >>
    /\ UNCHANGED otherVars

Close == CloseStart \/ CloseJoin

\* --------------------------------------------------------- is_connected()
IsConnected ==
    /\ pc = "idle"
    /\ call' = [NoCall EXCEPT !.op = "is_connected"]
    /\ Finish(Returned("is_connected", connected))
    /\ UNCHANGED << sessionVars, elapsed, readStart, notified, outputs,
                    nsent >>
    /\ UNCHANGED otherVars

\* ------------------------------------------------------------------ time
\* One second passes while the caller is inside a timed wait.  Past the
\* deadline the value no longer influences any test of the code.
Tick ==
    /\ pc \in {"get_wait", "exec_loop", "exec_read"}
    /\ elapsed < call.timeout
    /\ elapsed' = elapsed + 1
    /\ UNCHANGED << sessionVars, pc, call, readStart, notified, outputs,
                    nsent, ret >>
    /\ UNCHANGED otherVars

\* ------------------------------------------------------------------ spec
Next ==
    \/ ReceiveLoop
    \/ Resume
    \/ Connect
    \/ SendCommand
    \/ GetOutput
    \/ ExecuteCommandAndWait
    \/ Close
    \/ IsConnected
    \/ Tick

Spec == Init /\ [][Next]_vars

\* The inbound path alone: connect, the receive loop fed every kind of
\* frame, and a caller that reads the queue with get_output.
NextInbound ==
    \/ ReceiveAny
    \/ Resume
    \/ Connect
    \/ GetOutput
    \/ Tick

SpecInbound == Init /\ [][NextInbound]_vars

\* close() against the receive loop: a caller that connects and closes,
\* and transports that fail or are closed by the remote end at any moment.
\* The calling thread keeps running, so a join that is able to return does
\* return: weak fairness on CloseJoin.  Nothing is assumed of the receive
\* loop.
NextClose ==
    \/ ReceiveLoop
    \/ Resume
    \/ Connect
    \/ Close

SpecClose == Init /\ [][NextClose]_vars /\ WF_vars(CloseJoin)

\* ------------------------------------- two runs on one script (SpecRuns)
\* execute_command_and_wait is run twice on a Connected session whose
\* transport stays open.  Both runs are fed the same script of inbound
\* frames and are given the same expected text and timeout; when a frame
\* arrives relative to the caller's steps and to the clock is free in each
\* run.  The second run starts when the first has returned.  run holds
\*   n      1 or 2: which run this is
\*   pc     the caller's position, as pc above
\*   q      self.messages
\*   pos    number of script frames the receive loop has handled
\*   out    outputs
\*   sent   number of script frames the receive loop had handled when the
\*          command was written
\*   el, rs elapsed and readStart, as above
\*   res    result["success"] of the run once it has returned
\*   first  result["success"] of the first run, during the second
Scripts == UNION { [1..n -> Frames] : n \in 0..MaxScript }

FreshRun(n, first) ==
    [n |-> n, pc |-> "exec_drain", q |-> << >>, pos |-> 0, out |-> << >>,
     sent |-> 0, el |-> 0, rs |-> 0, res |-> "none", first |-> first]

\* The WebSocketClient after connect() returned on the acknowledgement and
\* the acknowledgement was read from the queue.
SessionConnected ==
    /\ ws = 1
    /\ ws_thread = 1
    /\ nconn = 1
    /\ loop = [t \in Transports |-> IF t = 1 THEN "open" ELSE "none"]
    /\ acked = TRUE
    /\ failed = FALSE
    /\ messages = << >>
    /\ connected = TRUE
    /\ error = "none"
    /\ nframes = 1
    /\ delivered = << 1 >>
    /\ pc = "idle"
    /\ call = NoCall
    /\ elapsed = 0
    /\ readStart = 0
    /\ notified = FALSE
    /\ outputs = << >>
    /\ nsent = 0
    /\ ret = NoRet

InitRuns ==
    /\ SessionConnected
    /\ ApiAtRest
    /\ CtlAtRest
    /\ HarnessAtRest
    /\ \E fs \in Scripts, e \in Expecteds, T \in Timeouts :
          script = [frames |-> fs, expected |-> e, timeout |-> T]
    /\ run = FreshRun(1, "none")

clientVars == << sessionVars, pc, localVars, ret >>

\* The run goes on as r; nothing else changes.
RunStep(r) ==
    /\ run' = r
    /\ UNCHANGED << script, clientVars, apiVars, ctlVars, harnessVars >>

\* on_message for the next frame of the script.
RunOnMessage ==
    /\ run.pc /= "returned"
    /\ run.pos < Len(script.frames)
    /\ RunStep([run EXCEPT
          !.pos = run.pos + 1,
          !.q = QueuePut(run.q,
                         Enqueued(script.frames[run.pos + 1], run.pos + 1))])

\* Lines 104-108.
RunDrain ==
    /\ run.pc = "exec_drain"
    /\ RunStep(IF DrainAgain(run.q)
                  THEN [run EXCEPT !.q = DrainStep(run.q)]
                  ELSE [run EXCEPT !.pc = "exec_send"])

\* Lines 111-116: the transport is open, the write succeeds.
RunSend ==
    /\ run.pc = "exec_send"
    /\ RunStep([run EXCEPT !.pc = "exec_loop", !.sent = run.pos])

\* The outcome a caller reads from result["success"] (lines 125-129).
Outcome(outs) == IF ExecSuccess(outs) THEN "success" ELSE "timeout"

\* Line 118.
RunLoopTest ==
    /\ run.pc = "exec_loop"
    /\ RunStep(IF run.el < script.timeout
                  THEN [run EXCEPT !.pc = "exec_read", !.rs = run.el]
                  ELSE [run EXCEPT !.pc = "returned",
                                   !.res = Outcome(run.out)])

\* Lines 119-123 with a message.
RunReadMessage ==
    /\ run.pc = "exec_read"
    /\ run.q /= << >>
    /\ LET m == QueueFront(run.q)
           out == Append(run.out, m)
       IN  RunStep(IF ExecBreak(script.expected, m)
                     THEN [run EXCEPT !.q = QueueRest(run.q), !.out = out,
                                      !.rs = 0, !.pc = "returned",
                                      !.res = Outcome(out)]
                     ELSE [run EXCEPT !.q = QueueRest(run.q), !.out = out,
                                      !.rs = 0, !.pc = "exec_loop"])

\* Lines 119-120 without one.
RunReadNone ==
    /\ run.pc = "exec_read"
    /\ run.q = << >>
    /\ run.el - run.rs >= PollTimeout
    /\ RunStep([run EXCEPT !.pc = "exec_loop", !.rs = 0])

\* One second passes during the wait loop.  The receive loop has handled
\* the whole script by then: the runs differ in how its callbacks fall
\* between the caller's steps, not in how late the frames are.
RunTick ==
    /\ run.pc \in {"exec_loop", "exec_read"}
    /\ run.pos = Len(script.frames)
    /\ run.el < script.timeout
    /\ RunStep([run EXCEPT !.el = run.el + 1])

\* The first run has returned: the same call is made again.
RunAgain ==
    /\ run.n = 1
    /\ run.pc = "returned"
    /\ RunStep(FreshRun(2, run.res))

NextRuns ==
    \/ RunOnMessage
    \/ RunDrain
    \/ RunSend
    \/ RunLoopTest
    \/ RunReadMessage
    \/ RunReadNone
    \/ RunTick
    \/ RunAgain

SpecRuns == InitRuns /\ [][NextRuns]_vars

\* ----------------------- APIClient.wait_for_container_ready (SpecApi)
\* Time is counted in whole seconds since start_time and is not counted
\* further than two seconds past the timeout: no test of the code reads it
\* there, and one second more than the polling interval shows a late
\* return.  polls records every get_container_status call: the second it was
\* made in and what came back,
\*   "pending"  no answer yet
\*   "running"  a success response whose status is "running"
\*   "other"    a success response with another status
\*   "fail"     the call raised: connection error, or raise_for_status on
\*              a non-success response
WaitTimeouts == 0..MaxWait
Answers == {"running", "other", "fail"}

InitApi ==
    /\ SessionInit
    /\ RunsAtRest
    /\ ApiAtRest
    /\ CtlAtRest
    /\ HarnessAtRest

Later(e, d) == IF e + d > wtimeout + 2 THEN wtimeout + 2 ELSE e + d

\* The steps of the call leave the WebSocketClient and the runs alone.
ApiStep == UNCHANGED << clientVars, runVars, ctlVars, harnessVars >>

\* Line 67.
WaitStart ==
    /\ apc = "idle"
    /\ \E T \in WaitTimeouts : wtimeout' = T
    /\ apc' = "test"
    /\ wel' = 0
    /\ polls' = << >>
    /\ wret' = NoRet
    /\ ApiStep

\* A loop that still polls when exactly the timeout has elapsed.
WaitGoesOn_Inclusive(e, T) == e <= T

\* Line 68, the loop condition.
WaitGoesOn(e, T) == e < T

\* Lines 68-70 and 76: test the deadline; call get_container_status, or
\* return False.
WaitLoopTest ==
    /\ apc = "test"
    /\ IF WaitGoesOn(wel, wtimeout)
          THEN /\ apc' = "request"
               /\ polls' = Append(polls, [at |-> wel, res |-> "pending"])
               /\ UNCHANGED wret
          ELSE /\ apc' = "returned"
               /\ wret' = Returned("wait", FALSE)
               /\ UNCHANGED polls
    /\ UNCHANGED << wtimeout, wel >>
    /\ ApiStep

\* A call in which an exception of get_container_status is not caught.
AfterPoll_FailFatal(a) ==
    CASE a = "running" -> [pc |-> "returned", ret |-> Returned("wait", TRUE)]
      [] a = "other"   -> [pc |-> "sleep", ret |-> NoRet]
      [] a = "fail"    -> [pc |-> "returned", ret |-> Raised("wait")]

\* Lines 71-74: what the call does with answer a.
AfterPoll(a) ==
    IF a = "running"
        THEN [pc |-> "returned", ret |-> Returned("wait", TRUE)]
        ELSE [pc |-> "sleep", ret |-> NoRet]

\* Lines 70-74: get_container_status comes back with answer a.
get_container_status ==
    /\ apc = "request"
    /\ \E a \in Answers :
          /\ polls' = [polls EXCEPT ![Len(polls)].res = a]
          /\ apc' = AfterPoll(a).pc
          /\ wret' = AfterPoll(a).ret
    /\ UNCHANGED << wtimeout, wel >>
    /\ ApiStep

\* Line 75.
WaitSleep ==
    /\ apc = "sleep"
    /\ wel' = Later(wel, SleepInterval)
    /\ apc' = "test"
    /\ UNCHANGED << wtimeout, polls, wret >>
    /\ ApiStep

\* A second passes while the request is out; session.get has no timeout.
WaitTick ==
    /\ apc = "request"
    /\ wel <= wtimeout + 1
    /\ wel' = Later(wel, 1)
    /\ UNCHANGED << apc, wtimeout, polls, wret >>
    /\ ApiStep

\* The caller has the result and is free to call again.
WaitResume ==
    /\ apc = "returned"
    /\ apc' = "idle"
    /\ wtimeout' = 0
    /\ wel' = 0
    /\ polls' = << >>
    /\ wret' = NoRet
    /\ ApiStep

NextApi ==
    \/ WaitStart
    \/ WaitLoopTest
    \/ get_container_status
    \/ WaitSleep
    \/ WaitTick
    \/ WaitResume

SpecApi == InitApi /\ [][NextApi]_vars

\* The same call with its progress: the calling thread keeps running, so
\* the loop test and the sleep are taken when they are enabled, and time
\* passes.  Nothing is assumed of the server: whether a response to
\* get_container_status ever comes is left open.
SpecApiLive ==
    /\ InitApi
    /\ [][NextApi]_vars
    /\ WF_vars(WaitLoopTest)
    /\ WF_vars(WaitSleep)
    /\ WF_vars(WaitTick)

\* --------------------------- APIClient primitives (SpecControl)
\* The primitives the tests call on an APIClient, by method name, and the
\* ones the class defines (api_client.py lines 15-55).  check_port_conflict
\* and cleanup_course_containers are called by test_port_conflict.py and
\* are not attributes of APIClient.
Primitives ==
    { "get_courses", "get_course_detail", "start_course", "stop_course",
      "get_container_status", "get_container_logs", "restart_container",
      "check_port_conflict", "cleanup_course_containers" }

Defined ==
    { "get_courses", "get_course_detail", "start_course", "stop_course",
      "get_container_status", "get_container_logs", "restart_container" }

\* Course ids the tests use, and the ones the server knows.
Courses == { "sql", "nonexistent" }
Known   == { "sql" }

\* The port of a request as it is written into the URL.
Port26257   == << "2", "6", "2", "5", "7" >>
Port70000   == << "7", "0", "0", "0", "0" >>
PortInvalid == << "i", "n", "v", "a", "l", "i", "d" >>
NoPort      == << >>

\* What comes back for a request of a primitive: an HTTP status, or 0 when
\* no response arrives (connection refused, reset).
ServerAnswers(op, course) ==
    IF op = "get_courses" \/ course \in Known
        THEN { 200, 500, 0 }
        ELSE { 404, 500, 0 }

\* response.raise_for_status(): an HTTPError for a 4xx or 5xx status.
RaisesForStatus(st) == st >= 400 /\ st < 600

\* A primitive that returns whatever response it got.
PrimitiveResult_NoStatusCheck(c, st) ==
    IF st = 0
        THEN [c EXCEPT !.pc = "returned", !.status = st, !.kind = "raise",
                       !.body = "ConnectionError"]
        ELSE [c EXCEPT !.pc = "returned", !.status = st, !.kind = "value",
                       !.body = "json"]

\* Lines 17-19 and alike: the call ends on the response with status st.
PrimitiveResult(c, st) ==
    IF st = 0
        THEN [c EXCEPT !.pc = "returned", !.status = st, !.kind = "raise",
                       !.body = "ConnectionError"]
    ELSE IF RaisesForStatus(st)
        THEN [c EXCEPT !.pc = "returned", !.status = st, !.kind = "raise",
                       !.code = st, !.body = "HTTPError"]
        ELSE [c EXCEPT !.pc = "returned", !.status = st, !.kind = "value",
                       !.body = "json"]

\* The server after it answered a request of op for course with st.
ServerAfter(containers, op, course, st) ==
    IF st /= 200 THEN containers
    ELSE IF op = "start_course" THEN containers \cup { course }
    ELSE IF op \in { "stop_course", "cleanup_course_containers" }
        THEN containers \ { course }
    ELSE containers

\* The steps of the test thread leave everything else alone.
CtlStep == UNCHANGED << clientVars, runVars, apiVars, fan, harnessVars >>

\* api_client.<op>(...): attribute lookup, then the request is sent.
CallPrimitive ==
    /\ ctl.pc = "idle"
    /\ \E op \in Primitives, course \in Courses :
          LET port == IF op = "check_port_conflict" THEN Port26257
                                                      ELSE NoPort
          IN  ctl' = IF op \in Defined
                        THEN [NoCtl EXCEPT !.pc = "request", !.op = op,
                                           !.course = course, !.port = port,
                                           !.nreq = 1]
                        ELSE [NoCtl EXCEPT !.pc = "returned", !.op = op,
                                           !.course = course, !.port = port,
                                           !.kind = "raise",
                                           !.body = "AttributeError"]
    /\ UNCHANGED srv
    /\ CtlStep

\* The response, or the failure of the transport, reaches the primitive.
PrimitiveResponse ==
    /\ ctl.pc = "request"
    /\ \E st \in ServerAnswers(ctl.op, ctl.course) :
          /\ ctl' = PrimitiveResult(ctl, st)
          /\ srv' = ServerAfter(srv, ctl.op, ctl.course, st)
    /\ CtlStep

\* What comes back for the request of measure_api_response_time; 0 stands
\* also for the expiry of timeout=10.
MeasureAnswers == { 200, 404, 500, 0 }

\* A measurement that does not look at the status.
MeasureResult_NoStatusCheck(st, el) == IF st = 0 THEN FailedSample ELSE el

\* Lines 81-86: the elapsed time, or -1.0 from the except branch.
MeasureResult(st, el) ==
    IF st = 0 \/ RaisesForStatus(st) THEN FailedSample ELSE el

\* Lines 80-82: start_time is taken and the request is sent; ctl.val counts
\* the seconds since.
MeasureStart ==
    /\ ctl.pc = "idle"
    /\ ctl' = [NoCtl EXCEPT !.pc = "measuring", !.op = "measure", !.nreq = 1]
    /\ UNCHANGED srv
    /\ CtlStep

MeasureTick ==
    /\ ctl.pc = "measuring"
    /\ ctl.val < MaxElapsed
    /\ ctl' = [ctl EXCEPT !.val = ctl.val + 1]
    /\ UNCHANGED srv
    /\ CtlStep

\* Lines 82-86.
MeasureResponse ==
    /\ ctl.pc = "measuring"
    /\ \E st \in MeasureAnswers :
          ctl' = [ctl EXCEPT !.pc = "returned", !.status = st,
                             !.kind = "value",
                             !.val = MeasureResult(st, ctl.val)]
    /\ UNCHANGED srv
    /\ CtlStep

\* The port of a check-port-conflict request parsed as a decimal number;
\* -1 when the text is not one.
Digits == << "0", "1", "2", "3", "4", "5", "6", "7", "8", "9" >>
IsDigit(c) == \E i \in 1..Len(Digits) : Digits[i] = c
DigitOf(c) == (CHOOSE i \in 1..Len(Digits) : Digits[i] = c) - 1

RECURSIVE ParseDigits(_)
ParseDigits(t) ==
    IF t = << >> THEN 0
    ELSE ParseDigits(SubSeq(t, 1, Len(t) - 1)) * 10 + DigitOf(t[Len(t)])

ParsePort(t) ==
    IF t /= << >> /\ \A i \in 1..Len(t) : IsDigit(t[i])
        THEN ParseDigits(t)
        ELSE 0 - 1

\* A handler of the server that does not check the range of the port.
ServerCheckPortConflict_NoRange(containers, course, port) ==
    IF ParsePort(port) < 0 THEN [status |-> 400, body |-> "error"]
    ELSE IF course \notin Known THEN [status |-> 404, body |-> "error"]
    ELSE [status |-> 200,
          body |-> IF course \in containers /\ ParsePort(port) = 26257
                      THEN "conflicted" ELSE "free"]

\* The server's handler of GET /api/courses/<course>/check-port-conflict:
\* 400 for a port that is no number or is outside 1-65535, 404 for a course
\* it does not know, else whether a running container of the course holds
\* the port.
ServerCheckPortConflict(containers, course, port) ==
    IF ParsePort(port) < 0 THEN [status |-> 400, body |-> "error"]
    ELSE IF ParsePort(port) < 1 \/ ParsePort(port) > 65535
        THEN [status |-> 400, body |-> "error"]
    ELSE IF course \notin Known THEN [status |-> 404, body |-> "error"]
    ELSE [status |-> 200,
          body |-> IF course \in containers /\ ParsePort(port) = 26257
                      THEN "conflicted" ELSE "free"]

\* The requests of test_port_conflict_api_validation (lines 97, 108, 119).
ValidationRequests ==
    { [course |-> "sql",         port |-> PortInvalid],
      [course |-> "sql",         port |-> Port70000],
      [course |-> "nonexistent", port |-> Port26257] }

\* requests.get(...) of the validation test: sent without the APIClient.
ValidationRequest ==
    /\ ctl.pc = "idle"
    /\ \E rq \in ValidationRequests :
          ctl' = [NoCtl EXCEPT !.pc = "raw_request", !.op = "raw_check",
                               !.course = rq.course, !.port = rq.port,
                               !.nreq = 1]
    /\ UNCHANGED srv
    /\ CtlStep

\* Lines 98-100 and alike: the response is at hand; no raise_for_status.
ValidationResponse ==
    /\ ctl.pc = "raw_request"
    /\ LET rs == ServerCheckPortConflict(srv, ctl.course, ctl.port)
       IN  ctl' = [ctl EXCEPT !.pc = "returned", !.kind = "value",
                              !.status = rs.status, !.body = rs.body]
    /\ UNCHANGED srv
    /\ CtlStep

\* The test goes on to its next call.
CtlResume ==
    /\ ctl.pc = "returned"
    /\ ctl' = NoCtl
    /\ UNCHANGED srv
    /\ CtlStep

NextControl ==
    \/ CallPrimitive
    \/ PrimitiveResponse
    \/ MeasureStart
    \/ MeasureTick
    \/ MeasureResponse
    \/ ValidationRequest
    \/ ValidationResponse
    \/ CtlResume

SpecControl == InitControl /\ [][NextControl]_vars

\* ====================================================================
\* test_concurrent_port_conflict_detection (SpecFanOut)
\* ====================================================================
\* The test thread starts a container, starts NumThreads threads that each
\* run check_conflict once, joins them in the order it started them, and
\* then empties the results queue.  Every thread step is one action, so
\* the threads interleave with each other and with the test thread in
\* every order.  join() is called without a timeout: it returns when the
\* thread has ended.

\* range(5)
NumThreads == 5

Threads == 1..NumThreads

\* A thread that was started and has not run yet.
NoWorker == [pc |-> "running", calls |-> 0, out |-> "none", body |-> "none"]

\* The steps of the concurrent test leave everything else alone.
FanStep == UNCHANGED << clientVars, runVars, apiVars, ctl, harnessVars >>

\* start_result = api_client.start_course("sql"); the test goes on only
\* if the call returned a value.
FanSetup ==
    /\ fan.pc = "idle"
    /\ \E st \in ServerAnswers("start_course", "sql") :
         LET c == PrimitiveResult(NoCtl, st) IN
           IF c.kind = "value"
               THEN /\ srv' = ServerAfter(srv, "start_course", "sql", st)
                    /\ fan' = [fan EXCEPT !.pc = "starting"]
               ELSE /\ fan' = [fan EXCEPT !.pc = "failed"]
                    /\ UNCHANGED srv
    /\ FanStep

\* One pass of `for i in range(5)`: the thread is created, appended to
\* threads and started; after the last pass the join loop begins.
StartThread ==
    /\ fan.pc = "starting"
    /\ fan.started < NumThreads
    /\ fan' = [fan EXCEPT
                 !.started = @ + 1,
                 !.worker = Append(@, NoWorker),
                 !.pc = IF fan.started + 1 = NumThreads
                            THEN "joining" ELSE "starting"]
    /\ UNCHANGED srv
    /\ FanStep

\* What one call api_client.check_port_conflict("sql", 26257) gives the
\* thread: the attribute lookup fails for a method APIClient does not
\* define, otherwise the call ends on the response with status st, whose
\* body tells whether a container of the course holds the port.
CheckOutcome(containers, op, st) ==
    IF op \notin Defined
        THEN [out |-> "error", body |-> "AttributeError"]
    ELSE IF PrimitiveResult(NoCtl, st).kind = "value"
        THEN [out |-> "success",
              body |-> ServerCheckPortConflict(containers, "sql",
                                               Port26257).body]
        ELSE [out |-> "error", body |-> PrimitiveResult(NoCtl, st).body]

\* A check_conflict that has no except clause: the exception ends the
\* thread and nothing is put.
check_conflict_NoExcept(i) ==
    /\ i <= fan.started
    /\ fan.worker[i].pc = "running"
    /\ \E st \in ServerAnswers("check_port_conflict", "sql") :
         LET o == CheckOutcome(srv, "check_port_conflict", st) IN
           fan' = [fan EXCEPT
                     !.worker[i] = [pc |-> IF o.out = "error"
                                               THEN "done" ELSE "put",
                                    calls |-> fan.worker[i].calls + 1,
                                    out |-> IF o.out = "error"
                                                THEN "none" ELSE o.out,
                                    body |-> o.body]]
    /\ UNCHANGED srv
    /\ FanStep

\* check_conflict, the try block and its except clause: the call is made
\* once, and its value or the caught exception is what the thread is
\* about to put.
check_conflict(i) ==
    /\ i <= fan.started
    /\ fan.worker[i].pc = "running"
    /\ \E st \in ServerAnswers("check_port_conflict", "sql") :
         LET o == CheckOutcome(srv, "check_port_conflict", st) IN
           fan' = [fan EXCEPT
                     !.worker[i] = [pc |-> "put",
                                    calls |-> fan.worker[i].calls + 1,
                                    out |-> o.out,
                                    body |-> o.body]]
    /\ UNCHANGED srv
    /\ FanStep

\* results.put((status, ...)): the thread appends to the one queue all
\* threads share, and ends.
ResultsPut(i) ==
    /\ i <= fan.started
    /\ fan.worker[i].pc = "put"
    /\ fan' = [fan EXCEPT
                 !.results = Append(@, [by |-> i,
                                        status |-> fan.worker[i].out,
                                        body |-> fan.worker[i].body]),
                 !.worker[i].pc = "done"]
    /\ UNCHANGED srv
    /\ FanStep

\* A launcher that joins a thread as soon as it has started it.
JoinThread_Early ==
    /\ fan.pc \in { "starting", "joining" }
    /\ fan.joined < fan.started
    /\ fan.worker[fan.joined + 1].pc = "done"
    /\ fan' = [fan EXCEPT
                 !.joined = @ + 1,
                 !.pc = IF fan.joined + 1 = NumThreads
                            THEN "merging" ELSE fan.pc]
    /\ UNCHANGED srv
    /\ FanStep

\* One pass of `for thread in threads: thread.join()`: the test thread
\* waits until the next thread of the list has ended; after the last pass
\* it turns to the results.
JoinThread ==
    /\ fan.pc = "joining"
    /\ fan.joined < NumThreads
    /\ fan.worker[fan.joined + 1].pc = "done"
    /\ fan' = [fan EXCEPT
                 !.joined = @ + 1,
                 !.pc = IF fan.joined + 1 = NumThreads
                            THEN "merging" ELSE "joining"]
    /\ UNCHANGED srv
    /\ FanStep

\* One pass of `while not results.empty()`: status, result = results.get().
ResultsGet ==
    /\ fan.pc = "merging"
    /\ fan.results /= << >>
    /\ fan' = [fan EXCEPT !.merged = Append(@, Head(fan.results)),
                          !.results = Tail(@)]
    /\ UNCHANGED srv
    /\ FanStep

\* results.empty() is true: the loop ends.
ResultsEmpty ==
    /\ fan.pc = "merging"
    /\ fan.results = << >>
    /\ fan' = [fan EXCEPT !.pc = "done"]
    /\ UNCHANGED srv
    /\ FanStep

NextFanOut ==
    \/ FanSetup
    \/ StartThread
    \/ \E i \in Threads : check_conflict(i)
    \/ \E i \in Threads : ResultsPut(i)
    \/ JoinThread
    \/ ResultsGet
    \/ ResultsEmpty

SpecFanOut == InitFanOut /\ [][NextFanOut]_vars

\* ====================================================================
\* test_course_lifecycle_basic, the cleanup of its finally block (SpecRetry)
\* ====================================================================
\* retry.attempt is the loop variable of `for attempt in range(3)`;
\* retry.log lists what the loop did, in order:
\*   "call"   api_client.stop_course(course_id) was called
\*   "ok"     it returned
\*   "fail"   it raised (st is the status, 0 for a transport failure)
\*   "sleep"  time.sleep(st)
\* The test thread keeps running and every request comes back, with a
\* response or with a failure of the transport: weak fairness of the steps.

\* range(3) and time.sleep(2)
MaxAttempts == 3
Backoff == 2

RetryStep ==
    UNCHANGED << clientVars, runVars, apiVars, ctl, fan, probe, thr >>

Logged(ev, st) == Append(retry.log, [ev |-> ev, st |-> st])

\* Lines 60-86: the try block starts the course, or fails on the way; the
\* finally block is entered either way.
RetryStart ==
    /\ retry.pc = "idle"
    /\ \E course \in Courses :
         \E st \in ServerAnswers("start_course", course) :
           /\ srv' = ServerAfter(srv, "start_course", course, st)
           /\ retry' = [NoRetry EXCEPT !.pc = "try", !.course = course]
    /\ RetryStep

\* Lines 87-89: the next pass of the loop calls stop_course; after the
\* last pass the loop is over.
RetryNext ==
    /\ retry.pc = "try"
    /\ retry' = IF retry.attempt < MaxAttempts
                   THEN [retry EXCEPT !.pc = "request",
                                      !.log = Logged("call", 0)]
                   ELSE [retry EXCEPT !.pc = "done", !.kind = "return"]
    /\ UNCHANGED srv
    /\ RetryStep

\* Lines 89-92: stop_course returns and the loop is left by break, or it
\* raises and the except clause is entered.
StopResponse ==
    /\ retry.pc = "request"
    /\ \E st \in ServerAnswers("stop_course", retry.course) :
         IF PrimitiveResult(NoCtl, st).kind = "value"
            THEN /\ retry' = [retry EXCEPT !.pc = "done", !.kind = "return",
                                           !.log = Logged("ok", st)]
                 /\ srv' = ServerAfter(srv, "stop_course", retry.course, st)
            ELSE /\ retry' = [retry EXCEPT !.pc = "except",
                                           !.log = Logged("fail", st)]
                 /\ UNCHANGED srv
    /\ RetryStep

\* A loop that waits after every failed attempt.
BackoffAfter_Always(attempt) == TRUE

\* Line 94.
BackoffAfter(attempt) == attempt < MaxAttempts - 1

\* Lines 92-97, the except clause: sleep before the next pass, or go
\* straight on after the last one.
RetryExcept ==
    /\ retry.pc = "except"
    /\ retry' = IF BackoffAfter(retry.attempt)
                   THEN [retry EXCEPT !.pc = "sleep"]
                   ELSE [retry EXCEPT !.pc = "try", !.attempt = @ + 1]
    /\ UNCHANGED srv
    /\ RetryStep

\* Line 95.
RetrySleep ==
    /\ retry.pc = "sleep"
    /\ retry' = [retry EXCEPT !.pc = "try", !.attempt = @ + 1,
                              !.log = Logged("sleep", Backoff)]
    /\ UNCHANGED srv
    /\ RetryStep

\* Line 99: the test is over; the next test may run.
RetryEnd ==
    /\ retry.pc = "done"
    /\ retry' = NoRetry
    /\ UNCHANGED srv
    /\ RetryStep

NextRetry ==
    \/ RetryStart
    \/ RetryNext
    \/ StopResponse
    \/ RetryExcept
    \/ RetrySleep
    \/ RetryEnd

SpecRetry ==
    /\ InitRetry
    /\ [][NextRetry]_vars
    /\ WF_vars(RetryNext)
    /\ WF_vars(StopResponse)
    /\ WF_vars(RetryExcept)
    /\ WF_vars(RetrySleep)

\* ====================================================================
\* conftest.py, the services_running fixture (SpecProbe)
\* ====================================================================
\* probe.url is the place in [backend_url + "/health", frontend_url] (1 or
\* 2, 0 before the loop), probe.n the passes of the inner loop made for
\* it.  Per URL: made counts the requests, failed those that raised or
\* were not answered with 200, slept the seconds slept, ans is the status
\* that came last (0: requests.get raised, its timeout of 2 s included).

\* range(30), time.sleep(1) and the two URLs
NumProbes == 30
ProbePause == 1
NumUrls == 2

ProbeAnswers == { 200, 503, 0 }

ProbeStep ==
    UNCHANGED << clientVars, runVars, apiVars, ctlVars, retry, thr >>

\* Lines 54-58: the fixture begins.
ProbeStart ==
    /\ probe.pc = "idle"
    /\ probe' = [NoProbe EXCEPT !.pc = "url"]
    /\ ProbeStep

\* Line 58: the next URL of the list, or the yield of line 70.
ProbeUrl ==
    /\ probe.pc = "url"
    /\ probe' = IF probe.url < NumUrls
                   THEN [probe EXCEPT !.url = @ + 1, !.n = 0, !.pc = "try"]
                   ELSE [probe EXCEPT !.pc = "ready"]
    /\ ProbeStep

\* Lines 59-61 and 67-68: the next pass sends a request; when the passes
\* are used up, the else clause of the loop raises.
ProbeNext ==
    /\ probe.pc = "try"
    /\ probe' = IF probe.n < NumProbes
                   THEN [probe EXCEPT !.pc = "request",
                                      !.made[probe.url] = @ + 1]
                   ELSE [probe EXCEPT !.pc = "raised"]
    /\ ProbeStep

\* A fixture content with any response at all.
ProbeOk_AnyResponse(st) == st /= 0

\* Line 62.
ProbeOk(st) == st = 200

\* Lines 61-65: the answer; break on status 200, else on to the sleep.
ProbeResponse ==
    /\ probe.pc = "request"
    /\ \E st \in ProbeAnswers :
         probe' = IF ProbeOk(st)
                     THEN [probe EXCEPT !.pc = "url",
                                        !.ans[probe.url] = st]
                     ELSE [probe EXCEPT !.pc = "sleep",
                                        !.ans[probe.url] = st,
                                        !.failed[probe.url] = @ + 1]
    /\ ProbeStep

\* Line 66.
ProbeSleep ==
    /\ probe.pc = "sleep"
    /\ probe' = [probe EXCEPT !.pc = "try", !.n = @ + 1,
                              !.slept[probe.url] = @ + ProbePause]
    /\ ProbeStep

NextProbe ==
    \/ ProbeStart
    \/ ProbeUrl
    \/ ProbeNext
    \/ ProbeResponse
    \/ ProbeSleep

SpecProbe == InitProbe /\ [][NextProbe]_vars

\* ====================================================================
\* Two threads calling one WebSocketClient (SpecConsumers)
\* ====================================================================
\* The session is Connected and its receive loop runs as above.  Two
\* threads call get_output, wait_for_output and execute_command_and_wait
\* on it, each at its own pace.  thr[i] holds for thread i
\*   op, expected, timeout   the call and its arguments
\*   pc        its position: "drain", "send", "loop" and "read" as the
\*             exec_ positions above, "get" inside a direct get_output
\*   el, rs    seconds since the call began, resp. since start_time, and
\*             the value of el when the read under way began
\*   empties   the reads of the wait loop that gave None
\*   got       arrival indices of the messages the call took off the queue
\*   kind      how it ended
\* Time passes for a thread only while it is blocked in messages.get, and
\* a get does not block longer than its timeout.
Callers == 1..2

InitConsumers ==
    /\ SessionConnected
    /\ RunsAtRest
    /\ ApiAtRest
    /\ CtlAtRest
    /\ retry = Absent
    /\ probe = Absent
    /\ thr = [i \in Callers |-> NoThread]

\* Thread i goes on as c; the queue is left as it is.
ThrStep(i, c) ==
    /\ thr' = [thr EXCEPT ![i] = c]
    /\ UNCHANGED << transportVars, nframes, flagVars, pc, localVars, ret,
                    runVars, apiVars, ctlVars, retry, probe >>

\* messages.get by thread i: the head leaves the queue.
ThrTake(i, c) ==
    /\ delivered' = Append(delivered, QueueFront(messages).idx)
    /\ messages' = QueueRest(messages)
    /\ ThrStep(i, [c EXCEPT !.got = Append(@, QueueFront(messages).idx)])

\* Entry of get_output(timeout), of wait_for_output(expected_text, timeout)
\* (line 94) and of execute_command_and_wait.
ThrCall(i) ==
    /\ thr[i].pc = "idle"
    /\ \E T \in Timeouts :
         \/ ThrStep(i, [NoThread EXCEPT !.op = "get_output", !.pc = "get",
                                        !.timeout = T])
         \/ ThrStep(i, [NoThread EXCEPT !.op = "wait_for_output",
                                        !.pc = "loop", !.timeout = T,
                                        !.expected = << "a" >>])
         \/ \E e \in Expecteds :
              ThrStep(i, [NoThread EXCEPT !.op = "execute", !.pc = "drain",
                                          !.timeout = T, !.expected = e])
    /\ UNCHANGED << messages, delivered >>

\* Lines 104-108.
ThrDrain(i) ==
    /\ thr[i].pc = "drain"
    /\ IF DrainAgain(messages)
          THEN /\ delivered' = Append(delivered, QueueFront(messages).idx)
               /\ messages' = DrainStep(messages)
               /\ ThrStep(i, [thr[i] EXCEPT
                                !.got = Append(@, QueueFront(messages).idx)])
          ELSE /\ ThrStep(i, [thr[i] EXCEPT !.pc = "send"])
               /\ UNCHANGED << messages, delivered >>

\* Lines 111-116.
ThrSend(i) ==
    /\ thr[i].pc = "send"
    /\ ThrStep(i, IF SendOutcome = "true"
                     THEN [thr[i] EXCEPT !.pc = "loop"]
                     ELSE [thr[i] EXCEPT !.pc = "returned",
                                         !.kind = "raise"])
    /\ UNCHANGED << messages, delivered >>

\* A wait loop that still reads when exactly the timeout has elapsed.
StillWaiting_Inclusive(e, T) == e <= T

\* Lines 95 and 118, the loop condition.
StillWaiting(e, T) == e < T

\* Lines 95-96 and 99, lines 118-119 and 125: another read, or the return.
ThrLoopTest(i) ==
    /\ thr[i].pc = "loop"
    /\ ThrStep(i, IF StillWaiting(thr[i].el, thr[i].timeout)
                     THEN [thr[i] EXCEPT !.pc = "read", !.rs = thr[i].el]
                     ELSE [thr[i] EXCEPT !.pc = "returned",
                                         !.kind = "return"])
    /\ UNCHANGED << messages, delivered >>

\* The message ends the call of thread i: get_output returns it (line 88),
\* wait_for_output returns on the expected text (lines 97-98),
\* execute_command_and_wait breaks on it (lines 122-123).
EndsCall(c, m) ==
    \/ c.op = "get_output"
    \/ c.op = "wait_for_output" /\ Contains(c.expected, m.data)
    \/ c.op = "execute" /\ ExecBreak(c.expected, m)

\* Lines 88, 96-98 and 119-123: the get of thread i hands out a message.
ThrRead(i) ==
    /\ thr[i].pc \in { "get", "read" }
    /\ messages /= << >>
    /\ ThrTake(i, IF EndsCall(thr[i], QueueFront(messages))
                     THEN [thr[i] EXCEPT !.pc = "returned",
                                         !.kind = "return"]
                     ELSE [thr[i] EXCEPT !.pc = "loop"])

\* Lines 89-90: queue.Empty when the timeout of the get has run out.
ThrReadNone(i) ==
    /\ thr[i].pc \in { "get", "read" }
    /\ messages = << >>
    /\ IF thr[i].pc = "get"
          THEN /\ thr[i].el >= thr[i].timeout
               /\ ThrStep(i, [thr[i] EXCEPT !.pc = "returned",
                                            !.kind = "return"])
          ELSE /\ thr[i].el - thr[i].rs >= PollTimeout
               /\ ThrStep(i, [thr[i] EXCEPT !.pc = "loop",
                                            !.empties = @ + 1])
    /\ UNCHANGED << messages, delivered >>

\* A second passes for thread i, blocked in a get on the empty queue.
ThrTick(i) ==
    /\ thr[i].pc \in { "get", "read" }
    /\ messages = << >>
    /\ IF thr[i].pc = "get"
          THEN thr[i].el < thr[i].timeout
          ELSE thr[i].el - thr[i].rs < PollTimeout
    /\ ThrStep(i, [thr[i] EXCEPT !.el = @ + 1])
    /\ UNCHANGED << messages, delivered >>

\* Thread i has its result and is free for its next call.
ThrResume(i) ==
    /\ thr[i].pc = "returned"
    /\ ThrStep(i, NoThread)
    /\ UNCHANGED << messages, delivered >>

NextConsumers ==
    \/ ReceiveLoop
    \/ \E i \in Callers : ThrCall(i)
    \/ \E i \in Callers : ThrDrain(i)
    \/ \E i \in Callers : ThrSend(i)
    \/ \E i \in Callers : ThrLoopTest(i)
    \/ \E i \in Callers : ThrRead(i)
    \/ \E i \in Callers : ThrReadNone(i)
    \/ \E i \in Callers : ThrTick(i)
    \/ \E i \in Callers : ThrResume(i)

SpecConsumers == InitConsumers /\ [][NextConsumers]_vars

\* ====================================================================
\* Properties
\* ====================================================================

\* The instant at which a call of `op` ends.
Ended(op) == pc = "returned" /\ ret.op = op

\* Some collected message carries the expected text.
Matched == \E i \in 1..Len(outputs) : Contains(call.expected, outputs[i].data)

\* C1: whenever connect returns normally, the session is Connected at that
\* instant: the acknowledgement arrived on the transport this call opened,
\* that transport is still open and the connected flag is set.
C1_ConnectReturnsConnected ==
    (Ended("connect") /\ ret.kind = "return") => Connected

\* C2: at most one receive loop (thread running run_forever) is alive for
\* the session in every reachable state.
C2_AtMostOneLoop ==
    Cardinality({ t \in Transports : IsAlive(t) }) <= 1

\* The session has been closed or has lost a transport.
SessionTerminal ==
    \E t \in Transports : loop[t] \in {"closing", "errored", "done"}

\* C3: Closed and Failed are terminal: once the session has been closed or
\* has lost its transport and is_connected() is false, no later step makes
\* is_connected() true again.
C3_TerminalStaysDisconnected ==
    [][(SessionTerminal /\ ~connected) => ~connected']_vars

\* C4: when connect ends by its timeout, the session is Failed: the flag is
\* clear and the receive loop of the transport it opened is no longer able
\* to move the session to Connected.
C4_TimeoutLeavesFailed ==
    (Ended("connect") /\ ret.kind = "raise") => (~connected /\ ~CanWrite(ws))

\* C5: connect returns normally only after a frame of type "connected" was
\* received on the transport opened by that same call.
C5_ReturnNeedsOwnAck ==
    (Ended("connect") /\ ret.kind = "return") => acked

\* C6: for execute_command_and_wait with a non-empty expected text on a
\* Connected session, the reported success is true exactly when a collected
\* message contains the expected text.
C6_SuccessIffMatch ==
    (Ended("execute") /\ ret.kind = "return" /\ call.expected /= NoText
        /\ Connected)
    => (ret.val <=> Matched)

\* C7: without an expected text the read loop ends as soon as one message
\* has been collected: the call is never back in its wait loop holding a
\* collected message.
C7_NoExpectedEndsOnFirst ==
    (pc \in {"exec_loop", "exec_read"} /\ call.expected = NoText)
    => outputs = << >>

\* C8: execute_command_and_wait does not end with an ordinary result
\* (success or timeout) once the acknowledged transport it wrote the command
\* to has been lost during the wait.
C8_LostMeansConnectionLost ==
    (Ended("execute") /\ ret.kind = "return" /\ acked) => loop[ws] = "open"

\* C9: no message that was in the inbound queue when
\* execute_command_and_wait started is in the list it collects.
C9_CorrelationBoundary ==
    call.op = "execute"
    => \A i \in 1..Len(outputs) : outputs[i].idx \notin call.stale

C9_Witness ==
    /\ Ended("execute")
    /\ ret.kind = "return"
    /\ call.stale /= {}
    /\ outputs /= << >>

\* C10: messages are handed out in arrival order: the list collected by
\* execute_command_and_wait and the sequence of all messages taken from the
\* queue are strictly increasing in arrival index.
C10_FifoOrder ==
    /\ \A i, j \in 1..Len(outputs) :
          i < j => outputs[i].idx < outputs[j].idx
    /\ \A i, j \in 1..Len(delivered) :
          i < j => delivered[i] < delivered[j]

C10_Witness ==
    /\ Ended("execute")
    /\ Connected
    /\ Len(outputs) >= 2

\* C11: two runs of execute_command_and_wait on a Connected session, fed
\* the same script of frames with the same expected text and timeout, end
\* with the same outcome, however the receive loop is interleaved with the
\* caller's steps.
C11_SameOutcome ==
    (run.n = 2 /\ run.pc = "returned") => run.res = run.first

\* C12: a timeout of execute_command_and_wait ends only that call: no step
\* of the call, the return on timeout included, changes the transport, the
\* receive loop, the connected flag or the error slot, so a session that is
\* Connected when the call times out is still Connected once it has ended.
C12_TimeoutEndsOnlyTheCall ==
    [][ExecuteCommandAndWait
        => (UNCHANGED << transportVars, flagVars >>
              /\ (Connected => Connected'))]_vars

C12_Witness ==
    /\ Ended("execute")
    /\ ret.kind = "return"
    /\ ~ret.val
    /\ elapsed >= call.timeout
    /\ Connected

\* C13: send_command on a session that is not Connected raises and writes
\* nothing to the transport.
C13_SendNeedsConnected ==
    (Ended("send_command") /\ ~Connected)
    => (ret.kind = "raise" /\ nsent = 0)

\* C14: every inbound frame is in the queue or was handed out from it
\* exactly once: the frames received so far number the messages queued plus
\* the messages taken.
C14_EveryFrameQueuedOnce ==
    Len(messages) + Len(delivered) = nframes

\* C15: once the error callback has run for the session's transport,
\* is_connected() is false, whether or not the close callback has run.
C15_ErrorDisconnects ==
    (ws /= 0 /\ loop[ws] = "errored") => ~connected

\* C16: execute_command_and_wait on a session that is Failed (its connect
\* timed out) fails fast: it never enters its wait loop and never ends with
\* an ordinary result.
C16_FailFast ==
    (failed /\ call.op = "execute")
    => /\ pc \notin {"exec_loop", "exec_read"}
       /\ ~(pc = "returned" /\ ret.kind = "return")

\* C17: whenever close() has returned, the session is Closed:
\* is_connected() is false.
C17_CloseLeavesClosed ==
    Ended("close") => ~connected

\* C18: close() always terminates: a caller that is waiting in the join on
\* the receive loop eventually has its close() returned, whatever the
\* receive loop does meanwhile, its own shutdown included.
C18_CloseTerminates ==
    (pc = "close_join") ~> Ended("close")

\* close() has returned while the receive loop, which failed on its own,
\* had not finished its shutdown.
C18_Witness ==
    /\ Ended("close")
    /\ ws_thread /= 0
    /\ loop[ws_thread] = "errored"

\* Some poll made before the timeout had elapsed was answered "running".
RunningInTime ==
    \E i \in 1..Len(polls) :
        polls[i].at < wtimeout /\ polls[i].res = "running"

\* C19: wait_for_container_ready returns True if and only if some
\* get_container_status poll made strictly before the timeout had elapsed
\* reported the status "running"; otherwise it returns False.
C19_TrueIffRunningInTime ==
    apc = "returned"
    => (wret.kind = "return" /\ (wret.val <=> RunningInTime))

\* True after two polls, and False after polls that never saw "running".
C19_Witness ==
    /\ apc = "returned"
    /\ wret.val
    /\ Len(polls) = 2
    /\ polls[1].res = "other"

\* C20: wait_for_container_ready never raises, and a failed poll does not
\* end it: whenever a poll has failed, the call is still polling, or it
\* ended later by a poll that reported "running" or by the deadline.
C20_FailedPollNotFatal ==
    /\ wret.kind /= "raise"
    /\ \A i \in 1..Len(polls) :
          (polls[i].res = "fail" /\ apc = "returned")
          => \/ (i < Len(polls) /\ wret.val)
             \/ (~wret.val /\ wel >= wtimeout)

\* A poll failed, and a later poll before the deadline made the call
\* return True.
C20_Witness ==
    /\ apc = "returned"
    /\ wret.val
    /\ \E i \in 1..(Len(polls) - 1) : polls[i].res = "fail"

\* C21: wait_for_container_ready starts consecutive polls at least one
\* polling interval apart, starts no poll at or after the deadline, and
\* returns no later than one interval past the deadline.
C21_PollPacing ==
    /\ \A i \in 1..(Len(polls) - 1) :
          polls[i + 1].at >= polls[i].at + SleepInterval
    /\ \A i \in 1..Len(polls) : polls[i].at < wtimeout
    /\ apc = "returned" => wel <= wtimeout + SleepInterval

\* A call on the APIClient, or a request of the tests, has ended.
CtlEnded(ops) == ctl.pc = "returned" /\ ctl.op \in ops

\* The request got a response and its status is a success.
Success(st) == st >= 200 /\ st < 400

\* C22: measure_api_response_time issues exactly one request and never
\* raises; it returns a non-negative time when the request succeeds, -1.0
\* when it fails (no response, or a non-success status), so the result is
\* negative exactly when the request failed.
C22_NegativeIffFailed ==
    CtlEnded({"measure"})
    => /\ ctl.kind = "value"
       /\ ctl.nreq = 1
       /\ Success(ctl.status) => ctl.val >= 0
       /\ ~Success(ctl.status) => ctl.val = FailedSample

\* A request that took a second got a non-success status: -1.0 came back.
C22_Witness ==
    /\ CtlEnded({"measure"})
    /\ ctl.status = 404
    /\ ctl.val < 0

\* C23: a primitive returns a value only on a success response; on a
\* non-success response it raises an error that carries the status code of
\* that response.
C23_ValueOnlyOnSuccess ==
    CtlEnded(Primitives)
    => /\ ctl.kind = "value" => Success(ctl.status)
       /\ (ctl.status /= 0 /\ ~Success(ctl.status))
             => (ctl.kind = "raise" /\ ctl.code = ctl.status)

C23_Witness ==
    /\ CtlEnded({"start_course"})
    /\ ctl.status = 500
    /\ ctl.kind = "raise"

\* C24: every call of a primitive issues exactly one request, whether it
\* succeeds or fails.
C24_ExactlyOneRequest ==
    CtlEnded(Primitives) => ctl.nreq = 1

\* C29: check_port_conflict("sql", 26257) reports isConflicted = false
\* while no container of the course runs (before any start, after the
\* cleanup) and isConflicted = true while one runs.
C29_CheckFollowsContainers ==
    (CtlEnded({"check_port_conflict"}) /\ ctl.course = "sql")
    => /\ ctl.kind = "value"
       /\ ctl.body = IF "sql" \in srv THEN "conflicted" ELSE "free"

\* C30: the check answers a port that is no number with status 400, the
\* port 70000 with status 400 and an unknown course with status 404, each
\* time with an error and no conflict result.
C30_InvalidInputRejected ==
    CtlEnded({"raw_check"})
    => /\ ctl.port = PortInvalid => ctl.status = 400
       /\ ctl.port = Port70000 => ctl.status = 400
       /\ (ctl.course = "nonexistent" /\ ctl.port = Port26257)
             => ctl.status = 404
       /\ ctl.status /= 200 => ctl.body = "error"

C30_Witness ==
    /\ CtlEnded({"raw_check"})
    /\ ctl.port = Port70000
    /\ ctl.status = 400

\* The test thread has joined every thread it started.
AllJoined == fan.pc \in { "merging", "done" }

\* The outcomes the test thread holds or is still to get from the queue.
Outcomes == fan.merged \o fan.results

\* How many of the outcomes have the status st.
CountOf(st) == Cardinality({ k \in 1..Len(Outcomes) : Outcomes[k].status = st })

\* C25: all NumThreads threads are started before the first of them is
\* joined, so that their lifetimes can overlap.
C25_AllStartedBeforeJoin ==
    (fan.pc = "joining" \/ fan.joined > 0) => fan.started = NumThreads

C25_Witness ==
    /\ fan.pc = "joining"
    /\ fan.joined = 0
    /\ \A i \in Threads : fan.worker[i].pc /= "done"
    /\ \E i \in Threads : fan.worker[i].pc = "put"

\* C26: once all threads are joined there is exactly one outcome of each
\* thread, a success or an error, so the two counts add up to NumThreads;
\* every thread made its call once, a failed call of one thread kept no
\* other from its own, and no thread ended on an exception.
C26_OneOutcomeEach ==
    AllJoined
    => /\ Len(Outcomes) = NumThreads
       /\ \A i \in Threads :
             Cardinality({ k \in 1..Len(Outcomes) : Outcomes[k].by = i }) = 1
       /\ \A k \in 1..Len(Outcomes) :
             Outcomes[k].status \in { "success", "error" }
       /\ CountOf("success") + CountOf("error") = NumThreads
       /\ \A i \in Threads : /\ fan.worker[i].calls = 1
                              /\ fan.worker[i].out /= "none"

C26_Witness ==
    /\ fan.pc = "done"
    /\ CountOf("error") > 0
    /\ Len(fan.merged) = NumThreads

\* C27: no collection is written by more than one thread (each thread has
\* a result slot of its own), and the test thread reads the results only
\* after every thread has ended.
C27_PrivateSlots ==
    /\ Cardinality({ fan.results[k].by : k \in 1..Len(fan.results) }) <= 1
    /\ fan.merged /= << >> =>
          \A i \in Threads : i <= fan.started /\ fan.worker[i].pc = "done"

\* C28: with the container of "sql" running, the five concurrent checks
\* give five successes that all report the conflict, and no error.
C28_FiveConflicts ==
    (AllJoined /\ "sql" \in srv)
    => /\ CountOf("success") = NumThreads
       /\ CountOf("error") = 0
       /\ \A k \in 1..Len(Outcomes) : Outcomes[k].body = "conflicted"

\* C31: a blocking operation ends within a bounded time even if the server
\* never answers: a wait_for_container_ready under way, and the
\* get_container_status it has called, come to an end.
C31_BlockingEnds ==
    (apc \in { "test", "request", "sleep" }) ~> (apc = "returned")

\* C32: execute_command_and_wait drains, then sends, then reads: nothing
\* is sent during the drain, the command has been written exactly once
\* when the wait loop runs and when the call returns, and a call whose
\* send failed raises with nothing written and nothing read.
C32_DrainSendRead ==
    /\ pc = "exec_drain" => (nsent = 0 /\ outputs = << >>)
    /\ pc = "exec_send" => (nsent = 0 /\ outputs = << >>)
    /\ pc \in { "exec_loop", "exec_read" } => nsent = 1
    /\ (Ended("execute") /\ ret.kind = "return") => nsent = 1
    /\ (Ended("execute") /\ ret.kind = "raise")
          => (nsent = 0 /\ outputs = << >>)

C32_Witness ==
    /\ Ended("execute")
    /\ ret.kind = "return"
    /\ call.stale /= {}
    /\ nsent = 1
    /\ outputs /= << >>

\* The events of one kind in the log of the retry loop.
RetryEvents(ev) == { k \in 1..Len(retry.log) : retry.log[k].ev = ev }

\* What the retry loop has done so far is well-formed: at most MaxAttempts
\* calls, nothing after a success, a backoff of Backoff seconds exactly
\* between a failed call and the next call, and an end that is normal and
\* comes right after a success or after the last failed call.
RetryShape ==
    LET log == retry.log  n == Len(retry.log) IN
    /\ Cardinality(RetryEvents("call")) <= MaxAttempts
    /\ \A k \in RetryEvents("ok") : k = n
    /\ \A k \in RetryEvents("sleep") :
          /\ log[k].st = Backoff
          /\ k > 1 /\ log[k - 1].ev = "fail"
          /\ k < n => log[k + 1].ev = "call"
    /\ \A k \in RetryEvents("fail") : k < n => log[k + 1].ev = "sleep"
    /\ retry.pc = "done"
          => /\ retry.kind = "return"
             /\ n > 0
             /\ \/ log[n].ev = "ok"
                \/ /\ log[n].ev = "fail"
                   /\ Cardinality(RetryEvents("call")) = MaxAttempts

ProbeLeft(u) == probe.url > u \/ (probe.url = u /\ probe.pc \in {"url", "ready"})

\* C34: services_running probes the backend health URL, then the frontend
\* URL; each at most NumProbes times, with a pause of one second after
\* each failed probe; it leaves a URL at the first probe answered 200, and
\* it raises exactly when all NumProbes probes of a URL failed, without
\* probing a later URL.
C34_ProbesInOrder ==
    /\ \A u \in 1..NumUrls :
          /\ probe.made[u] <= NumProbes
          /\ probe.failed[u] <= probe.made[u]
          /\ probe.made[u] <= probe.failed[u] + 1
          /\ probe.made[u] > 0 => probe.url >= u
          /\ u > probe.url => probe.made[u] = 0
          /\ ProbeLeft(u) => /\ probe.ans[u] = 200
                             /\ probe.made[u] = probe.failed[u] + 1
          /\ probe.slept[u] =
                IF probe.url = u /\ probe.pc = "sleep"
                   THEN (probe.failed[u] - 1) * ProbePause
                   ELSE probe.failed[u] * ProbePause
          /\ (probe.failed[u] = NumProbes /\ probe.pc \notin {"sleep", "try"})
                => (probe.pc = "raised" /\ probe.url = u)
    /\ probe.pc = "raised" => probe.failed[probe.url] = NumProbes
    /\ probe.pc = "ready" => probe.url = NumUrls

C34_Witness ==
    /\ probe.pc = "raised"
    /\ probe.url = 2
    /\ probe.failed[1] > 0

C37_OnlyMatchEndsEarly ==
    (call.op = "execute" /\ call.expected /= NoText)
    => /\ pc \in { "exec_loop", "exec_read" } => ~Matched
       /\ (Ended("execute") /\ ret.kind = "return")
             => /\ \A k \in 1..(Len(outputs) - 1) :
                      ~Contains(call.expected, outputs[k].data)
                /\ elapsed < call.timeout
                      => /\ outputs /= << >>
                         /\ Contains(call.expected,
                                     outputs[Len(outputs)].data)

C37_Witness ==
    /\ Ended("execute")
    /\ ret.kind = "return"
    /\ call.expected /= NoText
    /\ elapsed < call.timeout
    /\ Len(outputs) >= 2
    /\ Contains(call.expected, outputs[Len(outputs)].data)

Takes ==
    { t \in Callers \X (1..MaxFrames) : t[2] <= Len(thr[t[1]].got) }

\* C36: a queued message is handed to at most one call, once: no arrival
\* index was taken off the queue twice, none is held by two calls or
\* twice by one, and what was taken is no longer in the queue for a later
\* call, whichever of get_output, wait_for_output and
\* execute_command_and_wait the two threads are in.
C36_AtMostOnce ==
    /\ \A k, l \in 1..Len(delivered) :
          k /= l => delivered[k] /= delivered[l]
    /\ \A k \in 1..Len(delivered) : delivered[k] \notin QueuedIdx(messages)
    /\ \A s, t \in Takes :
          s /= t => thr[s[1]].got[s[2]] /= thr[t[1]].got[t[2]]

C36_Witness ==
    /\ thr[1].op = "execute"
    /\ thr[1].pc = "read"
    /\ thr[1].got /= << >>
    /\ thr[2].op = "wait_for_output"
    /\ thr[2].pc = "loop"
    /\ thr[2].got /= << >>

\* C38: execute_command_and_wait and wait_for_output with timeout T are
\* back no later than T plus one poll of the queue after the wait began:
\* a read begins only before T, lasts at most PollTimeout, and at most T
\* reads come back empty.
C38_ReturnsInTime ==
    \A i \in Callers :
        thr[i].op \in { "execute", "wait_for_output" }
        => /\ thr[i].el <= thr[i].timeout + PollTimeout
           /\ thr[i].pc = "read" => thr[i].rs < thr[i].timeout
           /\ thr[i].el - thr[i].rs <= PollTimeout
           /\ thr[i].empties <= thr[i].timeout

C38_Witness ==
    \E i \in Callers :
        /\ thr[i].op = "wait_for_output"
        /\ thr[i].pc = "returned"
        /\ thr[i].timeout = 2
        /\ thr[i].empties = 2
        /\ thr[i].el = 2

====
